---- MODULE Spec2Model ----
(***************************************************************************)
(* go-grep: the per-file line matcher (pkg/grep.go searchString, Grep,     *)
(* getReader, isValid, pkg/grep_buffer.go) and the concurrent tree search  *)
(* (pkg/grep.go GrepR).                                                    *)
(*                                                                         *)
(* Text is modelled as sequences of one-character strings, so that         *)
(* strings.Contains, strings.ToLower, strings.Index and slicing are        *)
(* computed character by character.                                        *)
(***************************************************************************)
EXTENDS Integers, Sequences, FiniteSets, TLC

(***************************************************************************)
(* Bounds of the model.                                                    *)
(***************************************************************************)
\* longest input text (in lines) the line matcher is run on
MaxLines == 3
\* largest before/after context setting the line matcher is run with
MaxContext == 2
\* largest number of entries below the root of a searched tree
MaxEntries == 3
\* longest input text (in lines) of the after-context runs
MaxAfterLines == 5
\* largest number of lines pushed into a context buffer on its own
MaxPushes == 4
\* longest text (in lines) of a file searched on its own
MaxFileLines == 2
\* largest number of "../" segments in front of a root given by the user
MaxUps == 2

\* the admission limit: MAX_OPEN_FILE_DESCRIPTORS is 1024 in pkg/grep.go; here
\* it is scaled down so that trees with more files than the limit are
\* reached (the code only ever compares the counter with 0)
MAX_OPEN_FILE_DESCRIPTORS == 2

(***************************************************************************)
(* Strings.                                                                *)
(***************************************************************************)
\* strings.ToLower on one character
LowerChar(c) == IF c = "A" THEN "a" ELSE IF c = "B" THEN "b" ELSE c

\* strings.ToLower
ToLower(s) == [i \in 1..Len(s) |-> LowerChar(s[i])]

\* strings.HasPrefix
HasPrefix(s, p) == Len(p) <= Len(s) /\ SubSeq(s, 1, Len(p)) = p

\* strings.Index: 0-based index of the first occurrence of sub in s, -1 if none
Index(s, sub) ==
    LET hits == {i \in 0..(Len(s) - Len(sub)) : SubSeq(s, i + 1, i + Len(sub)) = sub}
    IN  IF hits = {} THEN -1 ELSE CHOOSE i \in hits : \A j \in hits : i <= j

\* strings.Contains
Contains(s, sub) == Index(s, sub) >= 0

\* strings.TrimPrefix
TrimPrefix(s, p) == IF HasPrefix(s, p) THEN SubSeq(s, Len(p) + 1, Len(s)) ELSE s

(***************************************************************************)
(* pkg/grep_buffer.go                                                      *)
(***************************************************************************)
NewGrepBuffer(size) == [buff |-> <<>>, size |-> size]

\* Push that drops the new line when the buffer is full
PushKeepsOldest(b, data) ==
    IF b.size = 0 THEN b
    ELSE IF Len(b.buff) = b.size THEN b
         ELSE [b EXCEPT !.buff = Append(b.buff, data)]

\* Push without the test of the size
PushUnchecked(b, data) ==
    LET kept == IF Len(b.buff) = b.size /\ b.buff # <<>> THEN Tail(b.buff) ELSE b.buff
    IN  [b EXCEPT !.buff = Append(kept, data)]

Push(b, data) ==
    IF b.size = 0 THEN b
    ELSE LET kept == IF Len(b.buff) = b.size THEN Tail(b.buff) ELSE b.buff
         IN  [b EXCEPT !.buff = Append(kept, data)]

Dump(b) == b.buff

(***************************************************************************)
(* Errors and results.                                                     *)
(***************************************************************************)
\* a nil error
NoError == [kind |-> "nil", path |-> <<>>]

\* fmt.Errorf("%s: %w", path, sentinel)
Errorf(path, kind) == [kind |-> kind, path |-> path]

\* the zero GrepResult, also what a receive on a closed channel yields
ZeroResult == [Path |-> <<>>, MatchedLines |-> <<>>, LineCount |-> 0, Error |-> NoError]

(***************************************************************************)
(* searchString: one iteration of the scan loop.  st is the loop state     *)
(* (result, afterMatchCount, grepBuffer), raw is scanner.Text().           *)
(***************************************************************************)
ScanInit(option) ==
    [result |-> <<>>, afterMatchCount |-> 0,
     grepBuffer |-> NewGrepBuffer(option.LinesBeforeMatch)]

\* IsMatch with the keyword left as typed when the case is ignored
IsMatchKeywordNotLowered(raw, option) ==
    LET line == IF option.IgnoreCase THEN ToLower(raw) ELSE raw
    IN  Contains(line, option.Keyword)

IsMatch(raw, option) ==
    LET keyword == IF option.IgnoreCase THEN ToLower(option.Keyword) ELSE option.Keyword
        line    == IF option.IgnoreCase THEN ToLower(raw) ELSE raw
    IN  Contains(line, keyword)

\* ScanLine with the matched line saved before the buffer is flushed
ScanLineMatchFirst(st, raw, option) ==
    LET pending == st.afterMatchCount > 0
        r1 == IF pending THEN Append(st.result, raw) ELSE st.result
        a1 == IF pending THEN st.afterMatchCount - 1 ELSE st.afterMatchCount
        matched == IsMatch(raw, option)
        r2 == IF matched
              THEN (r1 \o <<raw>>)
                   \o (IF option.LinesBeforeMatch > 0 THEN Dump(st.grepBuffer) ELSE <<>>)
              ELSE r1
        a2 == IF matched /\ option.LinesAfterMatch > 0
              THEN a1 + option.LinesAfterMatch
              ELSE a1
        b2 == IF option.LinesBeforeMatch > 0
              THEN Push(st.grepBuffer, raw)
              ELSE st.grepBuffer
    IN  [result |-> r2, afterMatchCount |-> a2, grepBuffer |-> b2]

\* ScanLine with only the lines that did not match pushed into the buffer
ScanLinePushUnmatched(st, raw, option) ==
    LET pending == st.afterMatchCount > 0
        r1 == IF pending THEN Append(st.result, raw) ELSE st.result
        a1 == IF pending THEN st.afterMatchCount - 1 ELSE st.afterMatchCount
        matched == IsMatch(raw, option)
        r2 == IF matched
              THEN (IF option.LinesBeforeMatch > 0 THEN r1 \o Dump(st.grepBuffer) ELSE r1)
                   \o <<raw>>
              ELSE r1
        a2 == IF matched /\ option.LinesAfterMatch > 0
              THEN a1 + option.LinesAfterMatch
              ELSE a1
        b2 == IF option.LinesBeforeMatch > 0 /\ ~matched
              THEN Push(st.grepBuffer, raw)
              ELSE st.grepBuffer
    IN  [result |-> r2, afterMatchCount |-> a2, grepBuffer |-> b2]

\* ScanLine with a matching line that is pending after-context saved once
ScanLineOnceWhenMatched(st, raw, option) ==
    LET pending == st.afterMatchCount > 0
        matched == IsMatch(raw, option)
        r1 == IF pending /\ ~matched THEN Append(st.result, raw) ELSE st.result
        a1 == IF pending THEN st.afterMatchCount - 1 ELSE st.afterMatchCount
        r2 == IF matched
              THEN (IF option.LinesBeforeMatch > 0 THEN r1 \o Dump(st.grepBuffer) ELSE r1)
                   \o <<raw>>
              ELSE r1
        a2 == IF matched /\ option.LinesAfterMatch > 0
              THEN a1 + option.LinesAfterMatch
              ELSE a1
        b2 == IF option.LinesBeforeMatch > 0
              THEN Push(st.grepBuffer, raw)
              ELSE st.grepBuffer
    IN  [result |-> r2, afterMatchCount |-> a2, grepBuffer |-> b2]

\* ScanLine with the buffer emptied once it was flushed for a match
ScanLineClearsOnMatch(st, raw, option) ==
    LET pending == st.afterMatchCount > 0
        r1 == IF pending THEN Append(st.result, raw) ELSE st.result
        a1 == IF pending THEN st.afterMatchCount - 1 ELSE st.afterMatchCount
        matched == IsMatch(raw, option)
        r2 == IF matched
              THEN (IF option.LinesBeforeMatch > 0 THEN r1 \o Dump(st.grepBuffer) ELSE r1)
                   \o <<raw>>
              ELSE r1
        a2 == IF matched /\ option.LinesAfterMatch > 0
              THEN a1 + option.LinesAfterMatch
              ELSE a1
        b2 == IF option.LinesBeforeMatch > 0
              THEN Push(IF matched THEN NewGrepBuffer(st.grepBuffer.size)
                        ELSE st.grepBuffer, raw)
              ELSE st.grepBuffer
    IN  [result |-> r2, afterMatchCount |-> a2, grepBuffer |-> b2]

\* ScanLine with no flush of the buffer for a line taken as after-context
ScanLineNoFlushWhilePending(st, raw, option) ==
    LET pending == st.afterMatchCount > 0
        r1 == IF pending THEN Append(st.result, raw) ELSE st.result
        a1 == IF pending THEN st.afterMatchCount - 1 ELSE st.afterMatchCount
        matched == IsMatch(raw, option)
        r2 == IF matched
              THEN (IF option.LinesBeforeMatch > 0 /\ ~pending
                    THEN r1 \o Dump(st.grepBuffer) ELSE r1)
                   \o <<raw>>
              ELSE r1
        a2 == IF matched /\ option.LinesAfterMatch > 0
              THEN a1 + option.LinesAfterMatch
              ELSE a1
        b2 == IF option.LinesBeforeMatch > 0
              THEN Push(st.grepBuffer, raw)
              ELSE st.grepBuffer
    IN  [result |-> r2, afterMatchCount |-> a2, grepBuffer |-> b2]

\* a counter set one line too high at every match
ScanLineOneMoreAfter(st, raw, option) ==
    LET pending == st.afterMatchCount > 0
        r1 == IF pending THEN Append(st.result, raw) ELSE st.result
        a1 == IF pending THEN st.afterMatchCount - 1 ELSE st.afterMatchCount
        matched == IsMatch(raw, option)
        r2 == IF matched
              THEN (IF option.LinesBeforeMatch > 0 THEN r1 \o Dump(st.grepBuffer) ELSE r1)
                   \o <<raw>>
              ELSE r1
        a2 == IF matched /\ option.LinesAfterMatch > 0
              THEN a1 + option.LinesAfterMatch + 1
              ELSE a1
        b2 == IF option.LinesBeforeMatch > 0
              THEN Push(st.grepBuffer, raw)
              ELSE st.grepBuffer
    IN  [result |-> r2, afterMatchCount |-> a2, grepBuffer |-> b2]

ScanLine(st, raw, option) ==
    LET pending == st.afterMatchCount > 0
        r1 == IF pending THEN Append(st.result, raw) ELSE st.result
        a1 == IF pending THEN st.afterMatchCount - 1 ELSE st.afterMatchCount
        matched == IsMatch(raw, option)
        r2 == IF matched
              THEN (IF option.LinesBeforeMatch > 0 THEN r1 \o Dump(st.grepBuffer) ELSE r1)
                   \o <<raw>>
              ELSE r1
        a2 == IF matched /\ option.LinesAfterMatch > 0
              THEN a1 + option.LinesAfterMatch
              ELSE a1
        b2 == IF option.LinesBeforeMatch > 0
              THEN Push(st.grepBuffer, raw)
              ELSE st.grepBuffer
    IN  [result |-> r2, afterMatchCount |-> a2, grepBuffer |-> b2]

RECURSIVE ScanAll(_, _, _)
ScanAll(st, lines, option) ==
    IF lines = <<>> THEN st
    ELSE ScanAll(ScanLine(st, Head(lines), option), Tail(lines), option)

\* a reader r is [lines, err]: the lines it delivers, and whether it then
\* fails with a non-EOF error (scanner.Err() # nil)
searchString(r, option) ==
    IF r.err
    THEN [result |-> <<>>, err |-> Errorf(<<>>, "ReadFailure")]
    ELSE [result |-> ScanAll(ScanInit(option), r.lines, option).result, err |-> NoError]

\* PrepareResult with the lines kept next to the count
PrepareResultBoth(option, result) ==
    [ZeroResult EXCEPT !.Path = option.Path, !.MatchedLines = result,
                       !.LineCount = IF option.LineCount THEN Len(result) ELSE 0]

\* Grep's preparation of the result of the string search
PrepareResult(option, result) ==
    IF option.LineCount
    THEN [ZeroResult EXCEPT !.Path = option.Path, !.LineCount = Len(result)]
    ELSE [ZeroResult EXCEPT !.Path = option.Path, !.MatchedLines = result]

(***************************************************************************)
(* The filesystem (fs.FS) is a set of entries [path, isDir, mode, lines,   *)
(* readErr, readDirErr]; a path with no entry does not exist.              *)
(***************************************************************************)
RECURSIVE BitAnd(_, _)
BitAnd(x, y) ==
    IF x = 0 \/ y = 0 THEN 0
    ELSE (x % 2) * (y % 2) + 2 * BitAnd(x \div 2, y \div 2)

\* fs.FileMode.Perm(): the low nine bits
Perm(mode) == mode % 512

Exists(fSys, path) == \E e \in fSys : e.path = path

\* fs.Stat, for a path that exists
Stat(fSys, path) == CHOOSE e \in fSys : e.path = path

\* the permission test of isValid: the literal is decimal 400 in the source
OwnerReadable(mode) == BitAnd(Perm(mode), 400) # 0

\* isValid with the permissions checked before the kind of the entry
isValidPermFirst(fSys, option) ==
    IF ~Exists(fSys, option.Path)
    THEN Errorf(option.OrigPath, "NotExist")
    ELSE LET fileInfo == Stat(fSys, option.Path)
         IN  IF ~OwnerReadable(fileInfo.mode)
             THEN Errorf(option.Path, "Permission")
             ELSE IF fileInfo.isDir
                  THEN Errorf(option.OrigPath, "IsDirectory")
                  ELSE NoError

\* a validator whose errors all name the path the filesystem was asked for
isValidNamesPath(fSys, option) ==
    IF ~Exists(fSys, option.Path)
    THEN Errorf(option.Path, "NotExist")
    ELSE LET fileInfo == Stat(fSys, option.Path)
         IN  IF fileInfo.isDir
             THEN Errorf(option.Path, "IsDirectory")
             ELSE IF ~OwnerReadable(fileInfo.mode)
                  THEN Errorf(option.Path, "Permission")
                  ELSE NoError

isValid(fSys, option) ==
    IF ~Exists(fSys, option.Path)
    THEN Errorf(option.OrigPath, "NotExist")
    ELSE LET fileInfo == Stat(fSys, option.Path)
         IN  IF fileInfo.isDir
             THEN Errorf(option.OrigPath, "IsDirectory")
             ELSE IF ~OwnerReadable(fileInfo.mode)
                  THEN Errorf(option.Path, "Permission")
                  ELSE NoError

\* getReader with the error of isValid dropped
ValidationNeverFailed(err) == FALSE

\* getReader: the test of the error isValid returned, before fSys.Open
ValidationFailed(err) == err # NoError

\* the reader getReader hands to searchString for an opened file
FileReader(fSys, path) ==
    LET file == Stat(fSys, path) IN [lines |-> file.lines, err |-> file.readErr]

\* GrepRead with the lines found so far returned along with the error
GrepReadKeepsPartial(r, option) ==
    LET s == searchString(r, option)
    IN  IF s.err # NoError
        THEN [PrepareResult(option, ScanAll(ScanInit(option), r.lines, option).result)
                  EXCEPT !.Error = s.err]
        ELSE PrepareResult(option, s.result)

\* Grep after getReader succeeded: searchString, then the result
GrepRead(r, option) ==
    LET s == searchString(r, option)
    IN  IF s.err # NoError
        THEN [ZeroResult EXCEPT !.Error = s.err]
        ELSE PrepareResult(option, s.result)

\* Grep as a whole
Grep(fSys, stdin, option) ==
    IF option.Path # <<>>
    THEN LET err == isValid(fSys, option)
         IN  IF err # NoError
             THEN [ZeroResult EXCEPT !.Error = err]
             ELSE GrepRead(FileReader(fSys, option.Path), option)
    ELSE GrepRead(stdin, option)

\* returns the file path from user provided path
normalisePathFromRoot(rootPath, dirPath) ==
    LET dirPathClean == TrimPrefix(dirPath, <<".", ".", "/">>)
        idx == Index(rootPath, dirPathClean)
    IN  dirPath \o SubSeq(rootPath, idx + Len(dirPathClean) + 1, Len(rootPath))

(***************************************************************************)
(* Inputs.                                                                 *)
(***************************************************************************)
La  == <<"a">>
Lb  == <<"b">>
LAb == <<"A", "b">>
Lba == <<"b", "a">>

\* the lines input texts are made of
Lines == {La, Lb, LAb, Lba}

\* the keywords searched for
Keywords == {<<>>, <<"a">>, <<"A", "b">>}

RECURSIVE SeqsUpTo(_, _)
SeqsUpTo(S, n) ==
    IF n = 0 THEN {<<>>}
    ELSE LET shorter == SeqsUpTo(S, n - 1)
         IN  shorter \cup {Append(q, x) : q \in {t \in shorter : Len(t) = n - 1}, x \in S}

\* the request of a search over an input stream: cmd.go run, stdin case
StdinOptions ==
    [OrigPath : {<<>>}, Path : {<<>>}, Keyword : Keywords, IgnoreCase : BOOLEAN,
     LinesBeforeMatch : 0..MaxContext, LinesAfterMatch : 0..MaxContext,
     LineCount : BOOLEAN]

\* the request of a tree search: cmd.go run, file case (Path is the path
\* from the root of the filesystem, OrigPath what the user typed)
TreeOptions ==
    [OrigPath : {<<".", ".", "/", "d">>}, Path : {<<"w", "/", "d">>},
     Keyword : {<<"a">>}, IgnoreCase : {FALSE},
     LinesBeforeMatch : {0}, LinesAfterMatch : {1},
     LineCount : BOOLEAN]

\* the entries a tree is made of: regular files (0755 = 493, 0000 = 0)
\* and directories that cannot be listed (the root is the plain directory)
RegularFile(mode, lines, readErr) ==
    [isDir |-> FALSE, mode |-> mode, lines |-> lines, readErr |-> readErr, readDirErr |-> FALSE]

Directory(readDirErr) ==
    [isDir |-> TRUE, mode |-> 493, lines |-> <<>>, readErr |-> FALSE, readDirErr |-> readDirErr]

\* the lines of a kind of file are completed with the name of the entry
\* (TreeFS), so that no two files of a tree share a line
EntryKinds ==
    { RegularFile(493, <<Lb, La, LAb>>, FALSE),
      RegularFile(493, <<Lb>>, FALSE),
      RegularFile(0, <<La>>, FALSE),
      RegularFile(493, <<La>>, TRUE),
      Directory(TRUE) }

\* a tree: the root (a directory, a directory that cannot be listed, or
\* missing) and the entries below it in the order fs.WalkDir visits them
Trees ==
    {[root |-> "missing", entries |-> <<>>], [root |-> "unreadable", entries |-> <<>>]}
    \cup {[root |-> "dir", entries |-> es] : es \in SeqsUpTo(EntryKinds, MaxEntries)}

\* the name of the i-th entry
EntryName(i) == <<(<<"1", "2", "3", "4", "5", "6", "7", "8", "9">>)[i]>>

EntryPath(rootPath, i) == rootPath \o <<"/">> \o EntryName(i)

\* the filesystem a tree stands for
TreeFS(t, rootPath) ==
    IF t.root = "missing" THEN {}
    ELSE {[path |-> rootPath, isDir |-> TRUE, mode |-> 493, lines |-> <<>>,
           readErr |-> FALSE, readDirErr |-> (t.root = "unreadable")]}
         \cup {[path |-> EntryPath(rootPath, i), isDir |-> t.entries[i].isDir,
                mode |-> t.entries[i].mode,
                lines |-> [k \in 1..Len(t.entries[i].lines) |->
                              t.entries[i].lines[k] \o EntryName(i)],
                readErr |-> t.entries[i].readErr,
                readDirErr |-> t.entries[i].readDirErr] : i \in 1..Len(t.entries)}

(***************************************************************************)
(* fs.WalkDir: the calls of the walk function, in order, as records        *)
(* [path, entry, isDir, err].  entry is the index of the entry (0 for the  *)
(* root).  A directory that cannot be listed is visited a second time      *)
(* with the error; a missing root is visited once, with the error.         *)
(***************************************************************************)
Visit(path, entry, isDir, err) ==
    [path |-> path, entry |-> entry, isDir |-> isDir, err |-> err]

DirVisits(path, entry, readDirErr) ==
    IF readDirErr
    THEN <<Visit(path, entry, TRUE, NoError),
           Visit(path, entry, TRUE, Errorf(path, "Traversal"))>>
    ELSE <<Visit(path, entry, TRUE, NoError)>>

RECURSIVE EntryVisits(_, _, _)
EntryVisits(t, rootPath, i) ==
    IF i > Len(t.entries) THEN <<>>
    ELSE (IF t.entries[i].isDir
          THEN DirVisits(EntryPath(rootPath, i), i, t.entries[i].readDirErr)
          ELSE <<Visit(EntryPath(rootPath, i), i, FALSE, NoError)>>)
         \o EntryVisits(t, rootPath, i + 1)

WalkDir(t, rootPath) ==
    IF t.root = "missing"
    THEN <<Visit(rootPath, 0, FALSE, Errorf(rootPath, "Traversal"))>>
    ELSE DirVisits(rootPath, 0, t.root = "unreadable") \o EntryVisits(t, rootPath, 1)

(***************************************************************************)
(* State.                                                                  *)
(***************************************************************************)
VARIABLES
    option,         \* the request: GrepOption
    reader,         \* stream search: the input stream [lines, err]
    scan,           \* searchString: result, afterMatchCount, grepBuffer
    pos,            \* searchString: number of lines scanned
    spc,            \* stream search: "scan", "done", or "off"
    out,            \* the GrepResult returned by Grep
    gbuf,           \* context buffer on its own: the grepBuffer
    pushed,         \* context buffer on its own: the data pushed so far
    target,         \* single-file search: the entry at option.Path
    fpc,            \* single-file search: "valid", "open", "read", "done", "off"
    opened,         \* single-file search: number of calls of fSys.Open
    closed,         \* single-file search: number of calls of file.Close
    tree,           \* tree search: the tree below parentOption.Path
    dpc,            \* GrepR: "walk", "collect", "done", or "off"
    wpc,            \* GrepR: one entry per dispatched worker (outputChans)
    wresult,        \* GrepR: each worker's result
    openFileLimit,  \* GrepR: the admission counter
    waiters,        \* GrepR: workers blocked in cond.Wait
    holding,        \* GrepR: workers that decremented and did not increment
    openFiles,      \* GrepR: workers whose file is open
    collected,      \* GrepR: number of channels the driver has received from
    results,        \* GrepR: the list being returned
    input,          \* run: the GrepInput, and the working directory
    rpc,            \* run: "start", "grep", "grepR", "done", or "off"
    calls,          \* run: number of calls of Grep and of GrepR
    ret             \* run: what run ends with

bufferVars == <<gbuf, pushed>>
fileVars == <<target, fpc, opened, closed>>
searchVars == <<reader, scan, pos, spc, out, gbuf, pushed, target, fpc, opened, closed>>
treeVars == <<tree, dpc, wpc, wresult, openFileLimit, waiters, holding, openFiles,
              collected, results>>
runVars == <<input, rpc, calls, ret>>
vars == <<option, input, rpc, calls, ret, reader, scan, pos, spc, out, gbuf, pushed, target, fpc, opened, closed, tree, dpc, wpc, wresult, openFileLimit,
          waiters, holding, openFiles, collected, results>>

\* the parts of the state a specification does not use
BufferIdle == gbuf = NewGrepBuffer(0) /\ pushed = <<>>

FileIdle ==
    /\ target = [exists |-> FALSE, isDir |-> FALSE, mode |-> 0, lines |-> <<>>,
                 readErr |-> FALSE]
    /\ fpc = "off"
    /\ opened = 0
    /\ closed = 0

\* what run holds before it has called Grep or GrepR
NoOutcome == [kind |-> "none", list |-> <<>>, error |-> NoError]

RunIdle ==
    /\ input = [keyword |-> <<>>, path |-> <<>>, linesBeforeMatch |-> 0,
                linesAfterMatch |-> 0, ignoreCase |-> FALSE, searchDir |-> FALSE,
                lineCount |-> FALSE, cwd |-> <<"w">>]
    /\ rpc = "off"
    /\ calls = [Grep |-> 0, GrepR |-> 0]
    /\ ret = NoOutcome

SearchIdle ==
    /\ reader = [lines |-> <<>>, err |-> FALSE]
    /\ scan = ScanInit(option)
    /\ pos = 0
    /\ spc = "off"
    /\ out = ZeroResult

TreeIdle ==
    /\ tree = [root |-> "missing", entries |-> <<>>]
    /\ dpc = "off"
    /\ wpc = <<>>
    /\ wresult = <<>>
    /\ openFileLimit = MAX_OPEN_FILE_DESCRIPTORS
    /\ waiters = {}
    /\ holding = {}
    /\ openFiles = {}
    /\ collected = 0
    /\ results = <<>>

(***************************************************************************)
(* GrepR.                                                                  *)
(***************************************************************************)
Visits == WalkDir(tree, option.Path)

fSys == TreeFS(tree, option.Path)

\* prepares the options for grep
grepOptionSharedPath(w) ==
    [option EXCEPT !.Path = Visits[Len(wpc)].path, !.OrigPath = option.Path]

\* options for the worker that leave out the parent's after-context
grepOptionNoAfter(w) ==
    [option EXCEPT !.Path = Visits[w].path, !.OrigPath = option.Path,
                   !.LinesAfterMatch = 0]

grepOption(w) ==
    [option EXCEPT !.Path = Visits[w].path, !.OrigPath = option.Path]

\* the wait loop's condition
MustWaitOffByOne(limit) == limit < 0

MustWait(limit) == limit <= 0

\* the test for "no match found" left out: every result is handed over
NoMatchIgnored(result) == FALSE

\* the test for "no match found"
NoMatchLinesOnly(result) == Len(result.MatchedLines) = 0

NoMatch(result) == Len(result.MatchedLines) = 0 /\ result.LineCount = 0

\* the driver's append to the final output
CollectPrepend(rs, result) == <<result>> \o rs

Collect(rs, result) == Append(rs, result)

TreeInit ==
    /\ option \in TreeOptions
    /\ tree \in Trees
    /\ dpc = "walk"
    /\ wpc = <<>>
    /\ wresult = <<>>
    /\ openFileLimit = MAX_OPEN_FILE_DESCRIPTORS
    /\ waiters = {}
    /\ holding = {}
    /\ openFiles = {}
    /\ collected = 0
    /\ results = <<>>
    /\ reader = [lines |-> <<>>, err |-> FALSE]
    /\ scan = ScanInit(option)
    /\ pos = 0
    /\ spc = "off"
    /\ out = ZeroResult
    /\ BufferIdle
    /\ FileIdle
    /\ RunIdle

\* Walk that lets the driver collect as soon as one entry was visited
WalkHandsOverEarly ==
    /\ dpc = "walk"
    /\ Len(wpc) < Len(Visits)
    /\ wpc' = Append(wpc, "start")
    /\ wresult' = Append(wresult, ZeroResult)
    /\ dpc' = "collect"
    /\ UNCHANGED <<option, runVars, searchVars, tree, openFileLimit, waiters, holding,
                   openFiles, collected, results>>

\* the walk function: a channel and a worker for the next entry visited
Walk ==
    /\ dpc = "walk"
    /\ Len(wpc) < Len(Visits)
    /\ wpc' = Append(wpc, "start")
    /\ wresult' = Append(wresult, ZeroResult)
    /\ dpc' = IF Len(wpc) + 1 = Len(Visits) THEN "collect" ELSE "walk"
    /\ UNCHANGED <<option, runVars, searchVars, tree, openFileLimit, waiters, holding, openFiles,
                   collected, results>>

\* cond.L.Lock(); for openFileLimit <= 0 { cond.Wait() }; openFileLimit--
Admit(w) ==
    IF MustWait(openFileLimit)
    THEN /\ waiters' = waiters \cup {w}
         /\ wpc' = [wpc EXCEPT ![w] = "wait"]
         /\ UNCHANGED <<openFileLimit, holding>>
    ELSE /\ openFileLimit' = openFileLimit - 1
         /\ holding' = holding \cup {w}
         /\ wpc' = [wpc EXCEPT ![w] = "grep"]
         /\ UNCHANGED waiters

\* a worker without the directory test: a directory goes on to take a slot
WorkerStartAdmitsDirs(w) ==
    /\ wpc[w] = "start"
    /\ IF Visits[w].err # NoError
       THEN /\ wresult' = [wresult EXCEPT ![w] = [ZeroResult EXCEPT !.Error = Visits[w].err]]
            /\ wpc' = [wpc EXCEPT ![w] = "send"]
            /\ UNCHANGED <<openFileLimit, waiters, holding>>
       ELSE /\ Admit(w)
            /\ UNCHANGED wresult
    /\ UNCHANGED <<option, runVars, searchVars, tree, dpc, openFiles, collected, results>>

\* the worker up to its first attempt to take a slot
WorkerStart(w) ==
    /\ wpc[w] = "start"
    /\ IF Visits[w].err # NoError
       THEN /\ wresult' = [wresult EXCEPT ![w] = [ZeroResult EXCEPT !.Error = Visits[w].err]]
            /\ wpc' = [wpc EXCEPT ![w] = "send"]
            /\ UNCHANGED <<openFileLimit, waiters, holding>>
       ELSE IF Visits[w].isDir
            THEN /\ wpc' = [wpc EXCEPT ![w] = "done"]
                 /\ UNCHANGED <<wresult, openFileLimit, waiters, holding>>
            ELSE /\ Admit(w)
                 /\ UNCHANGED wresult
    /\ UNCHANGED <<option, runVars, searchVars, tree, dpc, openFiles, collected, results>>

\* a worker woken by cond.Signal tests the loop condition again
WorkerWoken(w) ==
    /\ wpc[w] = "woken"
    /\ Admit(w)
    /\ UNCHANGED <<option, runVars, searchVars, tree, dpc, wresult, openFiles, collected, results>>

\* Grep: getReader (isValid, then Open)
WorkerGetReader(w) ==
    /\ wpc[w] = "grep"
    /\ LET err == isValid(fSys, grepOption(w))
       IN  IF err # NoError
           THEN /\ wresult' = [wresult EXCEPT ![w] = [ZeroResult EXCEPT !.Error = err]]
                /\ wpc' = [wpc EXCEPT ![w] = "send"]
                /\ UNCHANGED openFiles
           ELSE /\ openFiles' = openFiles \cup {w}
                /\ wpc' = [wpc EXCEPT ![w] = "read"]
                /\ UNCHANGED wresult
    /\ UNCHANGED <<option, runVars, searchVars, tree, dpc, openFileLimit, waiters, holding,
                   collected, results>>

\* a Grep whose cleanup does not run when the read fails: the file stays
\* open
WorkerReadLeaksOnError(w) ==
    /\ wpc[w] = "read"
    /\ LET result == GrepRead(FileReader(fSys, Visits[w].path), grepOption(w))
       IN  /\ wresult' = [wresult EXCEPT ![w] = result]
           /\ wpc' = [wpc EXCEPT ![w] = IF result.Error # NoError THEN "send" ELSE "release"]
           /\ openFiles' = IF result.Error # NoError THEN openFiles ELSE openFiles \ {w}
    /\ UNCHANGED <<option, runVars, searchVars, tree, dpc, openFileLimit, waiters, holding,
                   collected, results>>

\* Grep: searchString, the deferred cleanup, and the result; on an error
\* the worker goes on to send it
WorkerRead(w) ==
    /\ wpc[w] = "read"
    /\ LET result == GrepRead(FileReader(fSys, Visits[w].path), grepOption(w))
       IN  /\ wresult' = [wresult EXCEPT ![w] = result]
           /\ wpc' = [wpc EXCEPT ![w] = IF result.Error # NoError THEN "send" ELSE "release"]
    /\ openFiles' = openFiles \ {w}
    /\ UNCHANGED <<option, runVars, searchVars, tree, dpc, openFileLimit, waiters, holding,
                   collected, results>>

\* a release without cond.Signal: the slot is given back, nobody is woken
WorkerReleaseNoSignal(w) ==
    /\ wpc[w] = "release"
    /\ openFileLimit' = openFileLimit + 1
    /\ holding' = holding \ {w}
    /\ UNCHANGED waiters
    /\ wpc' = [wpc EXCEPT ![w] = IF NoMatch(wresult[w]) THEN "done" ELSE "send"]
    /\ wresult' = [wresult EXCEPT ![w] =
                      IF NoMatch(wresult[w]) THEN wresult[w]
                      ELSE [wresult[w] EXCEPT !.Path =
                               normalisePathFromRoot(Visits[w].path, option.OrigPath)]]
    /\ UNCHANGED <<option, runVars, searchVars, tree, dpc, openFiles, collected, results>>

\* openFileLimit++; cond.Signal(); then the no-match test and the path
WorkerRelease(w) ==
    /\ wpc[w] = "release"
    /\ openFileLimit' = openFileLimit + 1
    /\ holding' = holding \ {w}
    /\ \/ /\ waiters = {}
          /\ UNCHANGED waiters
          /\ wpc' = [wpc EXCEPT ![w] = IF NoMatch(wresult[w]) THEN "done" ELSE "send"]
       \/ \E v \in waiters :
            /\ waiters' = waiters \ {v}
            /\ wpc' = [wpc EXCEPT ![w] = IF NoMatch(wresult[w]) THEN "done" ELSE "send",
                                  ![v] = "woken"]
    /\ wresult' = [wresult EXCEPT ![w] =
                      IF NoMatch(wresult[w]) THEN wresult[w]
                      ELSE [wresult[w] EXCEPT !.Path =
                               normalisePathFromRoot(Visits[w].path, option.OrigPath)]]
    /\ UNCHANGED <<option, runVars, searchVars, tree, dpc, openFiles, collected, results>>

\* a receive that takes the outcome of any worker blocked in a send, as
\* if workers shared one channel
ReceiveSentAnyChannel ==
    /\ dpc = "collect"
    /\ collected < Len(wpc)
    /\ \E v \in 1..Len(wpc) :
         /\ wpc[v] = "send"
         /\ wpc' = [wpc EXCEPT ![v] = "done"]
         /\ results' = IF NoMatch(wresult[v]) THEN results
                       ELSE Collect(results, wresult[v])
    /\ collected' = collected + 1
    /\ dpc' = IF collected + 1 = Len(wpc) THEN "done" ELSE "collect"
    /\ UNCHANGED <<option, runVars, searchVars, tree, wresult, openFileLimit, waiters, holding,
                   openFiles>>

\* result := <-outputChan, from a worker blocked in its send; the worker
\* then returns, closing the channel
ReceiveSent ==
    /\ dpc = "collect"
    /\ collected < Len(wpc)
    /\ wpc[collected + 1] = "send"
    /\ wpc' = [wpc EXCEPT ![collected + 1] = "done"]
    /\ results' = IF NoMatch(wresult[collected + 1]) THEN results
                  ELSE Collect(results, wresult[collected + 1])
    /\ collected' = collected + 1
    /\ dpc' = IF collected + 1 = Len(wpc) THEN "done" ELSE "collect"
    /\ UNCHANGED <<option, runVars, searchVars, tree, wresult, openFileLimit, waiters, holding,
                   openFiles>>

\* result := <-outputChan, from a channel closed without a send
ReceiveClosed ==
    /\ dpc = "collect"
    /\ collected < Len(wpc)
    /\ wpc[collected + 1] = "done"
    /\ results' = IF NoMatch(ZeroResult) THEN results ELSE Collect(results, ZeroResult)
    /\ collected' = collected + 1
    /\ dpc' = IF collected + 1 = Len(wpc) THEN "done" ELSE "collect"
    /\ UNCHANGED <<option, runVars, searchVars, tree, wpc, wresult, openFileLimit, waiters, holding,
                   openFiles>>

TreeNext ==
    \/ Walk
    \/ ReceiveSent
    \/ ReceiveClosed
    \/ \E w \in 1..Len(wpc) : WorkerStart(w)
    \/ \E w \in 1..Len(wpc) : WorkerWoken(w)
    \/ \E w \in 1..Len(wpc) : WorkerGetReader(w)
    \/ \E w \in 1..Len(wpc) : WorkerRead(w)
    \/ \E w \in 1..Len(wpc) : WorkerRelease(w)

Spec == TreeInit /\ [][TreeNext]_vars

(***************************************************************************)
(* Grep over an input stream (option.Path empty), searchString taken one   *)
(* line at a time.                                                         *)
(***************************************************************************)
Readers == [lines : SeqsUpTo(Lines, MaxLines), err : BOOLEAN]

SearchInit ==
    /\ option \in StdinOptions
    /\ reader \in Readers
    /\ scan = ScanInit(option)
    /\ pos = 0
    /\ spc = "scan"
    /\ out = ZeroResult
    /\ BufferIdle
    /\ FileIdle
    /\ TreeIdle
    /\ RunIdle

\* one iteration of for scanner.Scan() { ... }
SearchScan ==
    /\ spc = "scan"
    /\ pos < Len(reader.lines)
    /\ scan' = ScanLine(scan, reader.lines[pos + 1], option)
    /\ pos' = pos + 1
    /\ UNCHANGED <<option, runVars, reader, spc, out, bufferVars, fileVars, treeVars>>

\* the end of the stream: scanner.Err(), then Grep's result
SearchReturn ==
    /\ spc = "scan"
    /\ pos = Len(reader.lines)
    /\ out' = IF reader.err
              THEN [ZeroResult EXCEPT !.Error = Errorf(<<>>, "ReadFailure")]
              ELSE PrepareResult(option, scan.result)
    /\ spc' = "done"
    /\ UNCHANGED <<option, runVars, reader, scan, pos, bufferVars, fileVars, treeVars>>

SearchNext == SearchScan \/ SearchReturn

SearchSpec == SearchInit /\ [][SearchNext]_vars

(***************************************************************************)
(* The context buffer on its own: the buffer searchString makes for its    *)
(* request, and any sequence of Push calls.                                *)
(***************************************************************************)
BufferOptions ==
    [OrigPath : {<<>>}, Path : {<<>>}, Keyword : {<<"a">>}, IgnoreCase : {FALSE},
     LinesBeforeMatch : 0..MaxContext, LinesAfterMatch : {0}, LineCount : {FALSE}]

BufferInit ==
    /\ option \in BufferOptions
    /\ gbuf = NewGrepBuffer(option.LinesBeforeMatch)
    /\ pushed = <<>>
    /\ SearchIdle
    /\ FileIdle
    /\ TreeIdle
    /\ RunIdle

\* b.Push(data)
BufferPush ==
    /\ Len(pushed) < MaxPushes
    /\ \E data \in Lines :
          /\ gbuf' = Push(gbuf, data)
          /\ pushed' = Append(pushed, data)
    /\ UNCHANGED <<option, runVars, reader, scan, pos, spc, out, fileVars, treeVars>>

BufferNext == BufferPush

BufferSpec == BufferInit /\ [][BufferNext]_vars

(***************************************************************************)
(* Grep of one named target: getReader (isValid, then fSys.Open), then the *)
(* search, one call at a time.                                             *)
(***************************************************************************)
\* the request of a search of one file: cmd.go run, file case
FileOptions ==
    [OrigPath : {<<"f">>}, Path : {<<"w", "/", "f">>}, Keyword : {<<"a">>},
     IgnoreCase : {FALSE}, LinesBeforeMatch : {0}, LinesAfterMatch : {0, 1},
     LineCount : BOOLEAN]

\* permission bits: 0000, 0020, 0044, 0200, 0400, 0644, 0755
FileModes == {0, 16, 36, 128, 256, 420, 493}

FileTexts == SeqsUpTo({La, Lb}, MaxFileLines)

\* what is at option.Path: nothing, a directory, or a regular file
FileTargets ==
    {[exists |-> FALSE, isDir |-> FALSE, mode |-> 0, lines |-> <<>>, readErr |-> FALSE]}
    \cup [exists : {TRUE}, isDir : {TRUE}, mode : {0, 493}, lines : {<<>>},
          readErr : {FALSE}]
    \cup [exists : {TRUE}, isDir : {FALSE}, mode : FileModes, lines : FileTexts,
          readErr : BOOLEAN]

\* the filesystem that holds the target at option.Path and nothing else
FileFS ==
    IF target.exists
    THEN {[path |-> option.Path, isDir |-> target.isDir, mode |-> target.mode,
           lines |-> target.lines, readErr |-> target.readErr, readDirErr |-> FALSE]}
    ELSE {}

FileInit ==
    /\ option \in FileOptions
    /\ target \in FileTargets
    /\ fpc = "valid"
    /\ opened = 0
    /\ closed = 0
    /\ BufferIdle
    /\ SearchIdle
    /\ TreeIdle
    /\ RunIdle

\* getReader: isValid; Grep returns its error
FileValidate ==
    /\ fpc = "valid"
    /\ LET err == isValid(FileFS, option)
       IN  IF ValidationFailed(err)
           THEN /\ out' = [ZeroResult EXCEPT !.Error = err]
                /\ fpc' = "done"
           ELSE /\ out' = out
                /\ fpc' = "open"
    /\ UNCHANGED <<option, runVars, reader, scan, pos, spc, bufferVars, target, opened, closed,
                   treeVars>>

\* getReader: fSys.Open, which fails for a path that does not exist, and may
\* fail or not (by the filesystem and the user) for a file whose owner-read
\* bit 0400 is clear; Grep returns its error
FileOpen ==
    /\ fpc = "open"
    /\ opened' = opened + 1
    /\ \E fails \in BOOLEAN :
          /\ ~target.exists => fails
          /\ (target.exists /\ BitAnd(Perm(target.mode), 256) # 0) => ~fails
          /\ IF fails
             THEN /\ out' = [ZeroResult EXCEPT !.Error =
                                Errorf(option.Path, IF target.exists THEN "Permission"
                                                    ELSE "NotExist")]
                  /\ fpc' = "done"
             ELSE /\ out' = out
                  /\ fpc' = "read"
    /\ UNCHANGED <<option, runVars, reader, scan, pos, spc, bufferVars, target, closed, treeVars>>

\* searchString and the result, then the deferred cleanup closes the file
FileRead ==
    /\ fpc = "read"
    /\ out' = GrepRead(FileReader(FileFS, option.Path), option)
    /\ closed' = closed + 1
    /\ fpc' = "done"
    /\ UNCHANGED <<option, runVars, reader, scan, pos, spc, bufferVars, target, opened, treeVars>>

FileNext == FileValidate \/ FileOpen \/ FileRead

FileSpec == FileInit /\ [][FileNext]_vars

(***************************************************************************)
(* cmd.go: run.  It builds the GrepOption from the GrepInput, calls GrepR  *)
(* or Grep, and ends with the list of results, or with the error alone.    *)
(* input.cwd is the working directory, <<>> when it cannot be read.        *)
(***************************************************************************)
RunInputs ==
    {inp \in [keyword : {<<"a">>}, path : {<<>>, <<"f">>}, linesBeforeMatch : {0},
              linesAfterMatch : {0}, ignoreCase : {FALSE}, searchDir : BOOLEAN,
              lineCount : BOOLEAN, cwd : {<<"w">>, <<>>}] :
        inp.path = <<>> => inp.cwd = <<"w">>}

\* gets the path from fSys (/ in this case) to the arg
getFullPath(inp) ==
    IF inp.cwd = <<>>
    THEN [relPath |-> <<>>, err |-> Errorf(inp.path, "Getwd")]
    ELSE [relPath |-> inp.cwd \o <<"/">> \o inp.path, err |-> NoError]

\* the GrepOption run builds, given the Path (empty in the stdin case)
RunOption(inp, fullPath) ==
    [OrigPath |-> inp.path, Path |-> fullPath, Keyword |-> inp.keyword,
     IgnoreCase |-> inp.ignoreCase, LinesBeforeMatch |-> inp.linesBeforeMatch,
     LinesAfterMatch |-> inp.linesAfterMatch, LineCount |-> inp.lineCount]

\* grep.GrepOption{}
ZeroOption ==
    [OrigPath |-> <<>>, Path |-> <<>>, Keyword |-> <<>>, IgnoreCase |-> FALSE,
     LinesBeforeMatch |-> 0, LinesAfterMatch |-> 0, LineCount |-> FALSE]

\* run with the result of Grep appended whatever its error
RunOutcomeKeepsError(grepResult) ==
    [kind |-> "list", list |-> <<grepResult>>, error |-> NoError]

\* what run holds after Grep: the error alone, or the list of one result
RunOutcome(grepResult) ==
    IF grepResult.Error # NoError
    THEN [kind |-> "error", list |-> <<>>, error |-> grepResult.Error]
    ELSE [kind |-> "list", list |-> <<grepResult>>, error |-> NoError]

\* the trees run is tried on; one has more files than the admission limit
RunTrees ==
    {[root |-> "missing", entries |-> <<>>],
     [root |-> "dir", entries |-> <<>>],
     [root |-> "dir", entries |-> <<RegularFile(493, <<Lb>>, FALSE)>>],
     [root |-> "dir", entries |-> <<RegularFile(0, <<La>>, FALSE)>>],
     [root |-> "dir", entries |-> [i \in 1..(MAX_OPEN_FILE_DESCRIPTORS + 1) |->
                                      RegularFile(493, <<Lb, La, LAb>>, FALSE)]]}

RunInit ==
    /\ input \in RunInputs
    /\ rpc = "start"
    /\ calls = [Grep |-> 0, GrepR |-> 0]
    /\ ret = NoOutcome
    /\ option = ZeroOption
    /\ reader \in IF input.path = <<>> /\ ~input.searchDir
                  THEN [lines : SeqsUpTo({La, Lb}, MaxFileLines), err : BOOLEAN]
                  ELSE {[lines |-> <<>>, err |-> FALSE]}
    /\ scan = ScanInit(option)
    /\ pos = 0
    /\ spc = "off"
    /\ out = ZeroResult
    /\ target \in IF input.path # <<>> /\ ~input.searchDir
                  THEN FileTargets
                  ELSE {[exists |-> FALSE, isDir |-> FALSE, mode |-> 0, lines |-> <<>>,
                         readErr |-> FALSE]}
    /\ fpc = "off"
    /\ opened = 0
    /\ closed = 0
    /\ tree \in IF input.path # <<>> /\ input.searchDir
                THEN RunTrees
                ELSE {[root |-> "missing", entries |-> <<>>]}
    /\ dpc = "off"
    /\ wpc = <<>>
    /\ wresult = <<>>
    /\ openFileLimit = MAX_OPEN_FILE_DESCRIPTORS
    /\ waiters = {}
    /\ holding = {}
    /\ openFiles = {}
    /\ collected = 0
    /\ results = <<>>
    /\ BufferIdle

\* run up to its call of GrepR or Grep, or its return when the path of the
\* file case cannot be resolved
RunStart ==
    /\ rpc = "start"
    /\ LET full == IF input.path = <<>> THEN [relPath |-> <<>>, err |-> NoError]
                   ELSE getFullPath(input)
       IN  IF full.err # NoError
           THEN /\ ret' = [kind |-> "pathError", list |-> <<>>, error |-> full.err]
                /\ rpc' = "done"
                /\ UNCHANGED <<option, calls, scan, spc, fpc, dpc>>
           ELSE /\ option' = RunOption(input, full.relPath)
                /\ ret' = ret
                /\ scan' = ScanInit(option')
                /\ IF input.searchDir
                   THEN /\ calls' = [calls EXCEPT !.GrepR = @ + 1]
                        /\ rpc' = "grepR"
                        /\ dpc' = "walk"
                        /\ UNCHANGED <<spc, fpc>>
                   ELSE /\ calls' = [calls EXCEPT !.Grep = @ + 1]
                        /\ rpc' = "grep"
                        /\ IF option'.Path # <<>>
                           THEN fpc' = "valid" /\ spc' = spc
                           ELSE spc' = "scan" /\ fpc' = fpc
                        /\ dpc' = dpc
    /\ UNCHANGED <<input, reader, pos, out, bufferVars, target, opened, closed, tree, wpc,
                   wresult, openFileLimit, waiters, holding, openFiles, collected, results>>

\* Grep returned
RunGrepReturned ==
    /\ rpc = "grep"
    /\ fpc = "done" \/ spc = "done"
    /\ ret' = RunOutcome(out)
    /\ rpc' = "done"
    /\ UNCHANGED <<option, input, calls, searchVars, treeVars>>

\* GrepR returned
RunGrepRReturned ==
    /\ rpc = "grepR"
    /\ dpc = "done"
    /\ ret' = [kind |-> "list", list |-> results, error |-> NoError]
    /\ rpc' = "done"
    /\ UNCHANGED <<option, input, calls, searchVars, treeVars>>

RunNext ==
    \/ RunStart
    \/ RunGrepReturned
    \/ RunGrepRReturned
    \/ TreeNext
    \/ FileNext
    \/ SearchNext

RunSpec == RunInit /\ [][RunNext]_vars

(***************************************************************************)
(* GrepR for roots given in different shapes from different working        *)
(* directories: a name, with "../" segments in front of it or none.        *)
(***************************************************************************)
\* the path made of the given segments
RECURSIVE JoinPath(_)
JoinPath(segs) ==
    IF Len(segs) = 1 THEN <<segs[1]>>
    ELSE <<segs[1], "/">> \o JoinPath(Tail(segs))

\* n segments "../"
RECURSIVE Ups(_)
Ups(n) == IF n = 0 THEN <<>> ELSE <<".", ".", "/">> \o Ups(n - 1)

\* the working directories, as the segments of their paths from the root
PathCwds == {<<"w">>, <<"w", "x">>, <<"d", "x">>}

\* the root "d" as the user gives it, u levels above the working directory
\* (orig), and its path from the root of the filesystem (full)
PathRoots ==
    UNION {{[orig |-> Ups(u) \o <<"d">>,
             full |-> JoinPath(Append(SubSeq(c, 1, Len(c) - u), "d"))] :
               u \in {n \in 0..MaxUps : n <= Len(c)}} : c \in PathCwds}

PathOptions ==
    {[OrigPath |-> r.orig, Path |-> r.full, Keyword |-> <<"a">>, IgnoreCase |-> FALSE,
      LinesBeforeMatch |-> 0, LinesAfterMatch |-> 0, LineCount |-> lc] :
        r \in PathRoots, lc \in BOOLEAN}

PathInit ==
    /\ option \in PathOptions
    /\ tree \in RunTrees
    /\ dpc = "walk"
    /\ wpc = <<>>
    /\ wresult = <<>>
    /\ openFileLimit = MAX_OPEN_FILE_DESCRIPTORS
    /\ waiters = {}
    /\ holding = {}
    /\ openFiles = {}
    /\ collected = 0
    /\ results = <<>>
    /\ SearchIdle
    /\ BufferIdle
    /\ FileIdle
    /\ RunIdle

PathSpec == PathInit /\ [][TreeNext]_vars

(***************************************************************************)
(* GrepR with an allow-list and a deny-list of file extensions.  The       *)
(* request carries the two lists (IncludeExt, ExcludeExt) and every file   *)
(* of the tree its extension (ext).  The validator tests the extension     *)
(* after the permissions; a file that fails it is not opened and its       *)
(* search ends with the empty result and no error.                         *)
(***************************************************************************)
ExtFile(ext, lines) ==
    [isDir |-> FALSE, mode |-> 493, lines |-> lines, readErr |-> FALSE,
     readDirErr |-> FALSE, ext |-> ext]

ExtEntryKinds == {ExtFile("t", <<Lb, La>>), ExtFile("m", <<La>>)}

ExtTrees == {[root |-> "dir", entries |-> es] : es \in SeqsUpTo(ExtEntryKinds, MaxEntries)}

\* the lists tried: none, allow "t", deny "m", allow both and deny "m"
ExtLists ==
    {[inc |-> <<>>, exc |-> <<>>], [inc |-> <<"t">>, exc |-> <<>>],
     [inc |-> <<>>, exc |-> <<"m">>], [inc |-> <<"t", "m">>, exc |-> <<"m">>]}

ExtOptions ==
    {[OrigPath |-> <<".", ".", "/", "d">>, Path |-> <<"w", "/", "d">>,
      Keyword |-> <<"a">>, IgnoreCase |-> FALSE, LinesBeforeMatch |-> 0,
      LinesAfterMatch |-> 0, LineCount |-> FALSE,
      IncludeExt |-> l.inc, ExcludeExt |-> l.exc] : l \in ExtLists}

\* the extension of the file worker w was dispatched for
ExtOf(w) == tree.entries[Visits[w].entry].ext

\* the fourth check of the validator
ExtensionAllowed(opt, ext) ==
    /\ opt.IncludeExt # <<>> => \E i \in 1..Len(opt.IncludeExt) : opt.IncludeExt[i] = ext
    /\ opt.ExcludeExt # <<>> => \A i \in 1..Len(opt.ExcludeExt) : opt.ExcludeExt[i] # ext

ExtInit ==
    /\ option \in ExtOptions
    /\ tree \in ExtTrees
    /\ dpc = "walk"
    /\ wpc = <<>>
    /\ wresult = <<>>
    /\ openFileLimit = MAX_OPEN_FILE_DESCRIPTORS
    /\ waiters = {}
    /\ holding = {}
    /\ openFiles = {}
    /\ collected = 0
    /\ results = <<>>
    /\ SearchIdle
    /\ BufferIdle
    /\ FileIdle
    /\ RunIdle

\* Grep: getReader with the validator that also tests the extension
ExtWorkerGetReader(w) ==
    /\ wpc[w] = "grep"
    /\ LET err == isValid(fSys, grepOption(w))
       IN  IF err # NoError
           THEN /\ wresult' = [wresult EXCEPT ![w] = [ZeroResult EXCEPT !.Error = err]]
                /\ wpc' = [wpc EXCEPT ![w] = "send"]
                /\ UNCHANGED openFiles
           ELSE IF ~ExtensionAllowed(grepOption(w), ExtOf(w))
                THEN /\ wresult' = [wresult EXCEPT ![w] = ZeroResult]
                     /\ wpc' = [wpc EXCEPT ![w] = "release"]
                     /\ UNCHANGED openFiles
                ELSE /\ openFiles' = openFiles \cup {w}
                     /\ wpc' = [wpc EXCEPT ![w] = "read"]
                     /\ UNCHANGED wresult
    /\ UNCHANGED <<option, runVars, searchVars, tree, dpc, openFileLimit, waiters, holding,
                   collected, results>>

ExtNext ==
    \/ Walk
    \/ ReceiveSent
    \/ ReceiveClosed
    \/ \E w \in 1..Len(wpc) : WorkerStart(w)
    \/ \E w \in 1..Len(wpc) : WorkerWoken(w)
    \/ \E w \in 1..Len(wpc) : ExtWorkerGetReader(w)
    \/ \E w \in 1..Len(wpc) : WorkerRead(w)
    \/ \E w \in 1..Len(wpc) : WorkerRelease(w)

ExtSpec == ExtInit /\ [][ExtNext]_vars

(***************************************************************************)
(* searchString with after-context only, on longer texts of lines that     *)
(* either are the keyword or do not contain it.                            *)
(***************************************************************************)
AfterOptions ==
    [OrigPath : {<<>>}, Path : {<<>>}, Keyword : {<<"a">>}, IgnoreCase : {FALSE},
     LinesBeforeMatch : {0}, LinesAfterMatch : 1..MaxContext, LineCount : {FALSE}]

AfterReaders == [lines : SeqsUpTo({La, Lb}, MaxAfterLines), err : {FALSE}]

AfterInit ==
    /\ option \in AfterOptions
    /\ reader \in AfterReaders
    /\ scan = ScanInit(option)
    /\ pos = 0
    /\ spc = "scan"
    /\ out = ZeroResult
    /\ BufferIdle
    /\ FileIdle
    /\ TreeIdle
    /\ RunIdle

AfterSpec == AfterInit /\ [][SearchNext]_vars

(***************************************************************************)
(* The admission limiter on trees without failing entries, for every      *)
(* limit from one up to MAX_OPEN_FILE_DESCRIPTORS, so that there are      *)
(* more files than slots and a worker can arrive while another is woken.   *)
(***************************************************************************)
LimiterEntryKinds == {RegularFile(493, <<La>>, FALSE)}

LimiterTrees ==
    {[root |-> "dir", entries |-> es] : es \in SeqsUpTo(LimiterEntryKinds, MaxEntries)}

LimiterOptions == {o \in TreeOptions : ~o.LineCount}

LimiterInit ==
    /\ option \in LimiterOptions
    /\ tree \in LimiterTrees
    /\ dpc = "walk"
    /\ wpc = <<>>
    /\ wresult = <<>>
    /\ openFileLimit \in 1..MAX_OPEN_FILE_DESCRIPTORS
    /\ waiters = {}
    /\ holding = {}
    /\ openFiles = {}
    /\ collected = 0
    /\ results = <<>>
    /\ SearchIdle
    /\ BufferIdle
    /\ FileIdle
    /\ RunIdle

LimiterSpec == LimiterInit /\ [][TreeNext]_vars

\* the Go scheduler runs every goroutine that can take a step: as long as
\* some step of the driver or of a worker is possible, one is taken
LimiterFairSpec == LimiterSpec /\ WF_vars(TreeNext)

(***************************************************************************)
(* Properties of GrepR.                                                    *)
(***************************************************************************)
\* the workers inside Grep (validating, opening or reading their file)
InGrep == {w \in 1..Len(wpc) : wpc[w] \in {"grep", "read"}}

\* the workers dispatched for a regular file
FileWorkers == {w \in 1..Len(Visits) : Visits[w].err = NoError /\ ~Visits[w].isDir}

\* what a single-file Grep of worker w's file returns, with the settings of
\* the parent request
GrepOf(w) ==
    Grep(fSys, reader, [option EXCEPT !.Path = Visits[w].path, !.OrigPath = option.Path])

\* the path GrepR reports for worker w's file
ReportedPath(w) == normalisePathFromRoot(Visits[w].path, option.OrigPath)

\* the raw lines of worker w's file
LinesOf(w) == Stat(fSys, Visits[w].path).lines

\* C1: at any time at most MAX_OPEN_FILE_DESCRIPTORS workers hold an
\* admission slot inside Grep, and at most that many files are open.
C1_AdmissionBound ==
    /\ Cardinality(InGrep) <= MAX_OPEN_FILE_DESCRIPTORS
    /\ Cardinality(openFiles) <= MAX_OPEN_FILE_DESCRIPTORS
    /\ openFileLimit >= 0

\* C1 witness: the limit is reached while another worker waits for a slot
C1_Witness ==
    /\ Cardinality(InGrep) = MAX_OPEN_FILE_DESCRIPTORS
    /\ waiters # {}

\* C2: GrepR runs to completion: as long as the driver has not returned,
\* some step of the driver or of a worker is possible.
C2_GrepRCompletes == dpc = "done" \/ ENABLED TreeNext

\* C3: a worker that has finished holds no admission slot, and once GrepR
\* has returned the counter is back at its initial maximum.
C3_SlotReleased ==
    /\ \A w \in 1..Len(wpc) : wpc[w] = "done" => w \notin holding
    /\ dpc = "done" => openFileLimit = MAX_OPEN_FILE_DESCRIPTORS

\* C4: when GrepR returns, every file whose search ended in an error has
\* an outcome in the list that carries that error.
C4_FileErrorSurfaced ==
    dpc = "done" =>
        \A w \in FileWorkers :
            GrepOf(w).Error # NoError =>
                \E k \in 1..Len(results) : results[k].Error = GrepOf(w).Error

\* the outcome a file with a match contributes, whatever else is in the tree
OutcomeOf(w) == [GrepOf(w) EXCEPT !.Path = ReportedPath(w)]

MatchingWorkers ==
    {w \in FileWorkers : GrepOf(w).Error = NoError /\ ~NoMatch(GrepOf(w))}

\* C5: whatever files of the tree end in an error, every file with a match
\* contributes its outcome to the returned list: when no step is left to
\* take, GrepR has returned and the outcome of each such file is in the list.
C5_SiblingsContribute ==
    (~ENABLED TreeNext) =>
        \A w \in MatchingWorkers :
            /\ dpc = "done"
            /\ \E k \in 1..Len(results) : results[k] = OutcomeOf(w)

\* the list a walk in discovery order yields, one file after the other
RECURSIVE InDiscoveryOrder(_)
InDiscoveryOrder(w) ==
    IF w = 0 THEN <<>>
    ELSE IF w \in MatchingWorkers
         THEN Append(InDiscoveryOrder(w - 1), OutcomeOf(w))
         ELSE InDiscoveryOrder(w - 1)

FilesWithMatch ==
    {w \in FileWorkers : \E k \in 1..Len(LinesOf(w)) : IsMatch(LinesOf(w)[k], option)}

NoFileErrors == \A w \in FileWorkers : GrepOf(w).Error = NoError

\* C7: in a tree no file of which ends in an error, GrepR returns one
\* outcome per regular file with a matching line, and no other outcome.
C7_OnePerMatchingFile ==
    (dpc = "done" /\ NoFileErrors) =>
        /\ Len(results) = Cardinality(FilesWithMatch)
        /\ \A w \in FilesWithMatch :
              \E k \in 1..Len(results) : results[k].Path = ReportedPath(w)
        /\ \A k \in 1..Len(results) :
              /\ \E w \in FilesWithMatch : results[k].Path = ReportedPath(w)
              /\ ~NoMatch(results[k])

\* C7 witness: a returned list for a tree with files that match, a file
\* that does not, and directories
C7_Witness ==
    /\ dpc = "done"
    /\ NoFileErrors
    /\ Cardinality(FilesWithMatch) >= 2
    /\ FileWorkers \ FilesWithMatch # {}
    /\ Len(results) = Cardinality(FilesWithMatch)

\* the workers dispatched with a traversal error
ErrorVisits == {w \in 1..Len(Visits) : Visits[w].err # NoError}

\* C8: a traversal error is in the returned list exactly once, and no
\* worker is dispatched after the one that carries it.
C8_TraversalErrorOnceAndHalts ==
    /\ (dpc = "done" /\ ErrorVisits # {}) =>
          Cardinality({k \in 1..Len(results) : results[k].Error.kind = "Traversal"}) = 1
    /\ \A w \in ErrorVisits : w <= Len(wpc) => Len(wpc) = w

\* C9: every outcome collected so far is the outcome of exactly one file:
\* its path is that file's, its lines are lines of that file, as a search
\* of that file alone emits them, and no other outcome has that path.
C9_OneFilePerOutcome ==
    \A k \in 1..Len(results) :
        /\ \E w \in FileWorkers :
              /\ results[k].Path = ReportedPath(w)
              /\ results[k].MatchedLines = GrepOf(w).MatchedLines
              /\ results[k].LineCount = GrepOf(w).LineCount
              /\ \A j \in 1..Len(results[k].MatchedLines) :
                    \E n \in 1..Len(LinesOf(w)) : results[k].MatchedLines[j] = LinesOf(w)[n]
        /\ \A j \in 1..Len(results) : results[j].Path = results[k].Path => j = k

\* C9 witness: a returned list with the lines of two files
C9_Witness ==
    /\ dpc = "done"
    /\ ~option.LineCount
    /\ Len(results) >= 2
    /\ \A k \in 1..Len(results) : Len(results[k].MatchedLines) >= 2

(***************************************************************************)
(* Properties of Grep.                                                     *)
(***************************************************************************)
\* the lines of the input that contain the keyword
MatchedLinesOf(lines) == {k \in 1..Len(lines) : IsMatch(lines[k], option)}

\* C10: in count mode the count Grep returns is the number of lines that
\* contain the keyword, whatever the before/after context settings.
C10_CountExcludesContext ==
    (spc = "done" /\ option.LineCount /\ out.Error = NoError) =>
        /\ out.LineCount = Cardinality(MatchedLinesOf(reader.lines))
        /\ out.LineCount =
              Len(searchString(reader, [option EXCEPT !.LinesBeforeMatch = 0,
                                                      !.LinesAfterMatch = 0]).result)

Min(x, y) == IF x <= y THEN x ELSE y

Max(x, y) == IF x >= y THEN x ELSE y

\* a finished search in line mode that did not fail
LineSearchDone == spc = "done" /\ out.Error = NoError /\ ~option.LineCount

\* for each match among the first n lines, in order: the (at most k) lines
\* that directly precede it, then the matched line
RECURSIVE BeforeWindows(_, _, _)
BeforeWindows(lines, n, k) ==
    IF n = 0 THEN <<>>
    ELSE BeforeWindows(lines, n - 1, k)
         \o (IF IsMatch(lines[n], option)
             THEN SubSeq(lines, n - Min(k, n - 1), n)
             ELSE <<>>)

\* C11: with before = k > 0 and after = 0 the output is, match after match,
\* the min(k, i) lines that directly precede the match at index i, in input
\* order, followed by the matched line.
C11_BeforeContext ==
    (LineSearchDone /\ option.LinesBeforeMatch > 0 /\ option.LinesAfterMatch = 0) =>
        out.MatchedLines =
            BeforeWindows(reader.lines, Len(reader.lines), option.LinesBeforeMatch)

\* C11 witness: a match among the first k lines, which gets only the lines
\* that exist, and a later match with a full window of distinct lines
C11_Witness ==
    /\ LineSearchDone
    /\ option.LinesBeforeMatch = 2
    /\ option.LinesAfterMatch = 0
    /\ Len(reader.lines) = 3
    /\ IsMatch(reader.lines[2], option)
    /\ IsMatch(reader.lines[3], option)
    /\ ~IsMatch(reader.lines[1], option)
    /\ reader.lines[1] # reader.lines[2]
    /\ out.MatchedLines = <<reader.lines[1], reader.lines[2],
                            reader.lines[1], reader.lines[2], reader.lines[3]>>

\* the last min(k, n) of the first n lines
LastLines(lines, n, k) == SubSeq(lines, n - Min(k, n) + 1, n)

\* the number of lines all the before-context windows hold together
RECURSIVE WindowsSize(_, _, _)
WindowsSize(lines, n, k) ==
    IF n = 0 THEN 0
    ELSE WindowsSize(lines, n - 1, k)
         + (IF IsMatch(lines[n], option) THEN Min(k, n - 1) + 1 ELSE 0)

\* C12: with before = k > 0 the context buffer holds, after each line, the
\* last min(k, n) lines read, matched or not; and with after = 0 the output
\* has every window in full: overlapping windows are not deduplicated.
C12_EveryLinePushed ==
    /\ (spc \in {"scan", "done"} /\ option.LinesBeforeMatch > 0) =>
          Dump(scan.grepBuffer) = LastLines(reader.lines, pos, option.LinesBeforeMatch)
    /\ (LineSearchDone /\ option.LinesBeforeMatch > 0 /\ option.LinesAfterMatch = 0) =>
          Len(out.MatchedLines) =
              WindowsSize(reader.lines, Len(reader.lines), option.LinesBeforeMatch)

\* C12 witness: two matches on successive lines: the first matched line is
\* emitted again as the before-context of the second
C12_Witness ==
    /\ LineSearchDone
    /\ option.LinesBeforeMatch = 1
    /\ option.LinesAfterMatch = 0
    /\ Len(reader.lines) = 2
    /\ IsMatch(reader.lines[1], option)
    /\ IsMatch(reader.lines[2], option)
    /\ reader.lines[1] # reader.lines[2]
    /\ out.MatchedLines = <<reader.lines[1], reader.lines[1], reader.lines[2]>>
    /\ Dump(scan.grepBuffer) = <<reader.lines[2]>>

\* C13: with after = a > 0 and before = 0, a line that does not contain the
\* keyword is emitted (the counter is positive when it is read) only if one
\* of the a lines before it contains the keyword.
C13_AfterContextBounded ==
    (/\ spc = "scan"
     /\ pos < Len(reader.lines)
     /\ option.LinesBeforeMatch = 0
     /\ option.LinesAfterMatch > 0
     /\ scan.afterMatchCount > 0
     /\ ~IsMatch(reader.lines[pos + 1], option)) =>
        \E j \in Max(1, pos + 1 - option.LinesAfterMatch)..pos :
            IsMatch(reader.lines[j], option)

\* the characters c and d are equal, up to case when the case is ignored
SameChar(c, d, ignoreCase) == IF ignoreCase THEN LowerChar(c) = LowerChar(d) ELSE c = d

\* the keyword occurs somewhere in the raw line
ContainsKeyword(raw, opt) ==
    \E i \in 1..(Len(raw) - Len(opt.Keyword) + 1) :
        \A k \in 1..Len(opt.Keyword) : SameChar(raw[i + k - 1], opt.Keyword[k], opt.IgnoreCase)

\* the lines of a text that contain the keyword, in order
KeywordLines(lines, opt) == SelectSeq(lines, LAMBDA l : ContainsKeyword(l, opt))

\* C14: without context the emitted lines are exactly the lines that contain
\* the keyword (compared as typed, or up to case when the case is ignored),
\* and with or without context every emitted line is a raw line of the input.
C14_CaseAndRawLines ==
    LineSearchDone =>
        /\ (option.LinesBeforeMatch = 0 /\ option.LinesAfterMatch = 0) =>
              out.MatchedLines = KeywordLines(reader.lines, option)
        /\ \A i \in 1..Len(out.MatchedLines) :
              \E n \in 1..Len(reader.lines) : out.MatchedLines[i] = reader.lines[n]

C14_Witness ==
    /\ LineSearchDone
    /\ option.IgnoreCase
    /\ option.Keyword = <<"A", "b">>
    /\ option.LinesBeforeMatch = 0 /\ option.LinesAfterMatch = 0
    /\ reader.lines = <<La, LAb>>
    /\ out.MatchedLines = <<LAb>>

\* C15: a buffer of capacity k > 0 never holds more than k lines, and after m
\* pushes Dump returns the last min(m, k) pushed lines in the order pushed.
C15_BufferKeepsLast ==
    gbuf.size > 0 =>
        /\ Len(gbuf.buff) <= gbuf.size
        /\ Dump(gbuf) = LastLines(pushed, Len(pushed), gbuf.size)

C15_Witness ==
    /\ gbuf.size = 2
    /\ Len(pushed) = 4
    /\ pushed[2] # pushed[4]
    /\ pushed[1] # pushed[3]
    /\ Dump(gbuf) = <<pushed[3], pushed[4]>>

\* C16: a buffer of capacity 0 stores nothing whatever is pushed, and a push
\* on it is always possible.
C16_ZeroCapacityStoresNothing ==
    gbuf.size = 0 =>
        /\ Dump(gbuf) = <<>>
        /\ (fpc = "off" /\ spc = "off" /\ dpc = "off" /\ Len(pushed) < MaxPushes) => ENABLED BufferPush

C16_Witness ==
    /\ gbuf.size = 0
    /\ Len(pushed) >= 2
    /\ Dump(gbuf) = <<>>

\* isValid has been called on the target of a single-file search
Validated == fpc \in {"open", "read", "done"}

\* the search ended with an error of isValid (the file was never opened)
RejectedAs(kind) == fpc = "done" /\ opened = 0 /\ out.Error.kind = kind

\* C17: a missing path is rejected as NotExist, an existing directory as
\* IsDirectory whatever its permission bits, and only an existing entry that
\* is not a directory is rejected as Permission.
C17_ValidationOrder ==
    Validated =>
        /\ ~target.exists => RejectedAs("NotExist")
        /\ (target.exists /\ target.isDir) => RejectedAs("IsDirectory")
        /\ RejectedAs("Permission") => (target.exists /\ ~target.isDir)

C17_Witness ==
    /\ target.exists /\ target.isDir /\ target.mode = 0
    /\ RejectedAs("IsDirectory")

\* C18: fSys.Open is called only when isValid returned no error, and a
\* directory ends as IsDirectory with no Open, no Close and no line.
C18_OpenOnlyAfterValid ==
    /\ (fpc # "off" /\ opened > 0) => isValid(FileFS, option) = NoError
    /\ (Validated /\ target.exists /\ target.isDir) =>
          /\ RejectedAs("IsDirectory")
          /\ closed = 0
          /\ out.MatchedLines = <<>> /\ out.LineCount = 0

C18_Witness ==
    /\ fpc = "done"
    /\ opened = 1
    /\ closed = 1
    /\ out.Error = NoError
    /\ out.MatchedLines # <<>>

\* C19: a regular file is rejected as Permission, unopened, when its
\* owner-read bit (0400 = 256) is clear, and passes the check when it is set.
C19_OwnerReadBit ==
    (Validated /\ target.exists /\ ~target.isDir) =>
        IF BitAnd(Perm(target.mode), 256) = 0
        THEN RejectedAs("Permission")
        ELSE fpc = "open" \/ opened > 0

\* C20: a result of Grep that carries an error carries no line and a count
\* of zero, for the errors of getReader and for a read that fails.
C20_ErrorCarriesNothing ==
    (fpc = "done" /\ out.Error # NoError) =>
        out.MatchedLines = <<>> /\ out.LineCount = 0

C20_Witness ==
    /\ fpc = "done"
    /\ target.readErr
    /\ \E n \in 1..Len(target.lines) : IsMatch(target.lines[n], option)
    /\ out.Error.kind = "ReadFailure"
    /\ out.MatchedLines = <<>>

\* run called GrepR once and nothing else, and ended with its list
RoutedToGrepR ==
    /\ calls = [Grep |-> 0, GrepR |-> 1]
    /\ fpc = "off" /\ spc = "off" /\ opened = 0
    /\ ret = [kind |-> "list", list |-> results, error |-> NoError]

\* run called Grep once and nothing else, on the named file or else on the
\* stream with no stat and no open, and ended with the list of its one
\* result, or with its error alone
RoutedToGrep ==
    /\ calls = [Grep |-> 1, GrepR |-> 0]
    /\ dpc = "off" /\ wpc = <<>>
    /\ IF input.path = <<>>
       THEN option.Path = <<>> /\ spc = "done" /\ fpc = "off" /\ opened = 0
       ELSE option.Path = input.cwd \o <<"/">> \o input.path /\ fpc = "done" /\ spc = "off"
    /\ IF out.Error = NoError
       THEN ret = [kind |-> "list", list |-> <<out>>, error |-> NoError]
       ELSE ret = [kind |-> "error", list |-> <<>>, error |-> out.Error]

\* C21 as stated: run with the directory-search flag calls GrepR only and
\* ends with its list; without the flag it makes exactly one Grep pass, over
\* the named file or over the stream, and ends with a one-element list or
\* the error alone.
C21_FacadeRoutes ==
    rpc = "done" => IF input.searchDir THEN RoutedToGrepR ELSE RoutedToGrep

\* the path of the file case could be resolved (there is none to resolve in
\* the stdin case)
PathResolved == input.path = <<>> \/ input.cwd # <<>>

\* C21 amended: the routing of C21 holds whenever the path given resolves
\* to a path from the root of the filesystem; when it does not, run calls
\* neither Grep nor GrepR and ends with the error of the resolution.
C21_FacadeRoutesResolved ==
    rpc = "done" =>
        IF PathResolved
        THEN IF input.searchDir THEN RoutedToGrepR ELSE RoutedToGrep
        ELSE /\ calls = [Grep |-> 0, GrepR |-> 0]
             /\ fpc = "off" /\ spc = "off" /\ dpc = "off" /\ opened = 0
             /\ ret.kind = "pathError" /\ ret.list = <<>>

C21_Witness ==
    /\ rpc = "done"
    /\ ~input.searchDir
    /\ input.path = <<>>
    /\ reader.lines = <<Lb, La>>
    /\ ret = [kind |-> "list", list |-> <<out>>, error |-> NoError]
    /\ out.MatchedLines = <<La>>
    /\ fpc = "off" /\ opened = 0

\* the user's root followed by the path of worker w's file below the root
PathFromUserRoot(w) == option.OrigPath \o <<"/">> \o EntryName(Visits[w].entry)

\* C22: every outcome GrepR returns carries the root as the user gave it
\* followed by the path of its file below the root, and every file with a
\* match is reported under that path.
C22_ReportedPathFromRoot ==
    dpc = "done" =>
        /\ \A k \in 1..Len(results) :
              \E w \in FilesWithMatch : results[k].Path = PathFromUserRoot(w)
        /\ NoFileErrors =>
              \A w \in FilesWithMatch :
                  \E k \in 1..Len(results) : results[k].Path = PathFromUserRoot(w)

\* the files the lists of the request leave out
SkippedWorkers ==
    {w \in FileWorkers :
        \/ /\ option.IncludeExt # <<>>
           /\ \A i \in 1..Len(option.IncludeExt) : option.IncludeExt[i] # ExtOf(w)
        \/ \E i \in 1..Len(option.ExcludeExt) : option.ExcludeExt[i] = ExtOf(w)}

\* the outcomes of the files that are not left out, in discovery order
RECURSIVE KeptInDiscoveryOrder(_)
KeptInDiscoveryOrder(w) ==
    IF w = 0 THEN <<>>
    ELSE IF w \in MatchingWorkers \ SkippedWorkers
         THEN Append(KeptInDiscoveryOrder(w - 1), OutcomeOf(w))
         ELSE KeptInDiscoveryOrder(w - 1)

\* C23: a file whose extension is not in the allow-list, or is in the
\* deny-list, is never opened and ends with no error and no outcome, and the
\* returned list holds the outcomes of the other files as they are.
C23_SkippedSilently ==
    /\ dpc # "off" =>
          \A w \in SkippedWorkers :
              /\ w \notin openFiles
              /\ w <= Len(wresult) => wresult[w] = ZeroResult
    /\ dpc = "done" => results = KeptInDiscoveryOrder(Len(Visits))

C23_Witness ==
    /\ dpc = "done"
    /\ SkippedWorkers \cap MatchingWorkers # {}
    /\ MatchingWorkers \ SkippedWorkers # {}
    /\ results = KeptInDiscoveryOrder(Len(Visits))
    /\ Len(results) < Cardinality(MatchingWorkers)

\* C24: in every state of the scan the pending after-context counter is
\* between 0 and the number of after-context lines asked for.
C24_CounterWithinAfter ==
    spc \in {"scan", "done"} =>
        /\ scan.afterMatchCount >= 0
        /\ scan.afterMatchCount <= option.LinesAfterMatch

\* the step scans a line that is pending after-context and contains the
\* keyword, with a before-context buffer that holds lines
PendingMatchStep ==
    /\ spc = "scan" /\ spc' = "scan"
    /\ pos' = pos + 1
    /\ option.LinesBeforeMatch > 0
    /\ scan.afterMatchCount > 0
    /\ Dump(scan.grepBuffer) # <<>>
    /\ IsMatch(reader.lines[pos + 1], option)

\* C25 as stated: for a line emitted as pending after-context that also
\* contains the keyword the contents of the buffer are not appended: the
\* step adds the line (as after-context and as a match) and nothing else.
C25_NoFlushWhilePending ==
    [][PendingMatchStep =>
          scan'.result = scan.result \o <<reader.lines[pos + 1], reader.lines[pos + 1]>>]_vars

\* C25 amended: such a line is a match like any other: the step adds the
\* line as after-context, then the contents of the buffer, then the line as
\* the match.
C25_FlushWhilePending ==
    [][PendingMatchStep =>
          scan'.result = (Append(scan.result, reader.lines[pos + 1])
                            \o Dump(scan.grepBuffer))
                         \o <<reader.lines[pos + 1]>>]_vars

C25_Witness ==
    /\ LineSearchDone
    /\ option.LinesBeforeMatch = 1
    /\ option.LinesAfterMatch = 1
    /\ option.Keyword = <<"a">>
    /\ ~option.IgnoreCase
    /\ reader.lines = <<Lb, La, Lba>>
    /\ out.MatchedLines = <<Lb, La, Lba, La, Lba>>

\* the step scans a line while after-context is pending
PendingStep ==
    /\ spc = "scan" /\ spc' = "scan"
    /\ pos' = pos + 1
    /\ scan.afterMatchCount > 0

\* C26: a line read while the counter is positive is appended first, as
\* after-context; if it does not contain the keyword that is all and the
\* counter goes down by one; if it does and before = 0, it is appended once
\* more, so that it stands twice in succession in the output.
C26_AfterStepBeforeMatch ==
    [][PendingStep =>
          LET raw == reader.lines[pos + 1]
          IN  /\ Len(scan'.result) > Len(scan.result)
              /\ SubSeq(scan'.result, 1, Len(scan.result) + 1) = Append(scan.result, raw)
              /\ ~IsMatch(raw, option) =>
                    /\ scan'.result = Append(scan.result, raw)
                    /\ scan'.afterMatchCount = scan.afterMatchCount - 1
              /\ (IsMatch(raw, option) /\ option.LinesBeforeMatch = 0) =>
                    scan'.result = scan.result \o <<raw, raw>>]_vars

C26_Witness ==
    /\ LineSearchDone
    /\ option.LinesBeforeMatch = 0
    /\ option.LinesAfterMatch = 1
    /\ option.Keyword = <<"a">>
    /\ reader.lines = <<La, Lba, Lb>>
    /\ out.MatchedLines = <<La, Lba, Lba, Lb>>

\* C27: with the empty keyword the lines returned with no context are the
\* lines of the input, and the count returned is the number of lines of the
\* input.
C27_EmptyKeywordMatchesAll ==
    (spc = "done" /\ out.Error = NoError /\ option.Keyword = <<>>) =>
        IF option.LineCount
        THEN out.LineCount = Len(reader.lines)
        ELSE (option.LinesBeforeMatch = 0 /\ option.LinesAfterMatch = 0) =>
                 out.MatchedLines = reader.lines

\* the step scans a line that contains the keyword, with a buffer
MatchStepWithBuffer ==
    /\ spc = "scan" /\ spc' = "scan"
    /\ pos' = pos + 1
    /\ option.LinesBeforeMatch > 0
    /\ IsMatch(reader.lines[pos + 1], option)

\* C28: a match does not clear the buffer: after the step of a matching line
\* the buffer is the buffer of before with that line pushed, that is the
\* last min(k, n) of the n lines read so far.
C28_DumpKeepsBuffer ==
    [][MatchStepWithBuffer =>
          /\ scan'.grepBuffer = Push(scan.grepBuffer, reader.lines[pos + 1])
          /\ Dump(scan'.grepBuffer) =
                LastLines(reader.lines, pos + 1, option.LinesBeforeMatch)]_vars

C28_Witness ==
    /\ spc = "scan"
    /\ pos = 2
    /\ option.LinesBeforeMatch = 2
    /\ ~IsMatch(reader.lines[1], option)
    /\ IsMatch(reader.lines[2], option)
    /\ Dump(scan.grepBuffer) = <<reader.lines[1], reader.lines[2]>>

\* C29: a result of Grep with no error has its lines set and a count of 0
\* in line mode, its count set and no lines in count mode, and never both.
C29_LinesOrCount ==
    (fpc = "done" /\ out.Error = NoError) =>
        /\ option.LineCount => out.MatchedLines = <<>>
        /\ ~option.LineCount => out.LineCount = 0
        /\ ~(out.MatchedLines # <<>> /\ out.LineCount # 0)

C29_Witness ==
    /\ fpc = "done"
    /\ out.Error = NoError
    /\ option.LineCount
    /\ out.LineCount > 0
    /\ out.MatchedLines = <<>>

\* C30: the driver receives nothing while the walk goes on, and once it
\* collects there is one channel and one worker per visited entry, a number
\* that no longer changes.
C30_WalkBeforeCollect ==
    /\ dpc = "walk" => (collected = 0 /\ results = <<>>)
    /\ dpc \in {"collect", "done"} =>
          (Len(wpc) = Len(Visits) /\ Len(wresult) = Len(Visits))
    /\ collected <= Len(wpc)

C30_Witness ==
    /\ dpc = "walk"
    /\ Len(wpc) >= 2
    /\ Len(wpc) < Len(Visits)
    /\ \E w \in 1..Len(wpc) : wpc[w] = "send"
    /\ collected = 0


\* ---------------------------------------------------------------------
\* Directory entries

\* the workers dispatched for a directory that WalkDir could visit
DirWorkers == {w \in 1..Len(Visits) : Visits[w].err = NoError /\ Visits[w].isDir}

\* C31: a worker dispatched for a directory never waits for or holds a
\* slot, never enters Grep, records no outcome and never blocks in a send:
\* it only returns, closing its channel; and the empty outcome the driver
\* receives from that channel is not in the final output, whose entries
\* all belong to the other workers
C31_DirectoryWorkerIdle ==
    /\ \A w \in DirWorkers \cap (1..Len(wpc)) :
          /\ wpc[w] \in {"start", "done"}
          /\ w \notin holding \cup waiters \cup openFiles
          /\ wresult[w] = ZeroResult
    /\ \A k \in 1..Len(results) : results[k] # ZeroResult
    /\ Len(results) <= Cardinality((1..collected) \ DirWorkers)

\* the driver has received from the channel of a directory below the
\* root, after it collected a match from a file
C31_Witness ==
    /\ \E w \in DirWorkers : w > 1 /\ w <= collected /\ wpc[w] = "done"
    /\ results # <<>>
    /\ dpc = "done"


\* ---------------------------------------------------------------------
\* The handoff channels

\* the driver has passed the channels of workers 1..collected
Passed(w) == w <= collected

\* one step of the handoff protocol
HandoffStep ==
    /\ collected' \in {collected, collected + 1}
    /\ \A w \in 1..Len(wpc) :
          /\ wpc[w] = "done" => wpc'[w] = "done"
          /\ (wpc[w] = "send" /\ wpc'[w] # "send") =>
                /\ w = collected + 1
                /\ collected' = collected + 1
                /\ wpc'[w] = "done"
    /\ collected' = collected + 1 =>
          /\ wpc'[collected + 1] = "done"
          /\ wresult' = wresult

\* C32: a worker blocked in its send leaves it only by the driver's
\* receive on that worker's own channel, after which it is finished for
\* good (one outcome at most, then the close); every receive advances the
\* driver by exactly one channel, so each channel is received from once,
\* and all of them when GrepR returns; and no worker whose channel the
\* driver has passed is still blocked
C32_OneShotHandoff ==
    /\ [](/\ collected <= Len(wpc)
          /\ \A w \in 1..Len(wpc) : Passed(w) => wpc[w] = "done"
          /\ dpc = "done" => collected = Len(Visits))
    /\ [][HandoffStep]_vars

\* a worker is blocked in its send on a channel the driver has not reached
\* while the driver has already received an outcome from an earlier one
C32_Witness ==
    /\ \E w \in 1..Len(wpc) : wpc[w] = "send" /\ w > collected + 1
    /\ collected >= 1
    /\ results # <<>>


\* ---------------------------------------------------------------------
\* GrepR against single-file Grep

\* an outcome with its path left out of the comparison
WithoutPath(result) == [result EXCEPT !.Path = <<>>]

\* worker w is past its call of Grep
GrepReturned(w) == wpc[w] \in {"release", "send", "done"}

\* C33: for every regular file, what the worker holds once its Grep has
\* returned equals, path aside, what a single-file Grep of that file
\* returns under the parent's keyword, case, context and count settings;
\* and the entry the driver keeps for a file with a match is that same
\* outcome under the path reported from the root
C33_SameAsSingleFileGrep ==
    \A w \in FileWorkers \cap (1..Len(wpc)) :
        /\ GrepReturned(w) => WithoutPath(wresult[w]) = WithoutPath(GrepOf(w))
        /\ (Passed(w) /\ ~NoMatch(GrepOf(w))) =>
              \E k \in 1..Len(results) :
                  results[k] = [GrepOf(w) EXCEPT !.Path = ReportedPath(w)]

\* count mode: GrepR returned, and one entry counts two lines or more of
\* a file whose single-file Grep found a match
C33_Witness ==
    /\ dpc = "done"
    /\ option.LineCount
    /\ \E w \in FileWorkers :
          /\ GrepOf(w).LineCount >= 2
          /\ \E k \in 1..Len(results) : results[k].LineCount = GrepOf(w).LineCount


\* ---------------------------------------------------------------------
\* Slots and sends

\* C34: no worker holds an admission slot while it is blocked sending its
\* outcome to the driver
C34_NoSlotWhileSending ==
    \A w \in 1..Len(wpc) : wpc[w] = "send" => w \notin holding


\* ---------------------------------------------------------------------
\* Wake-ups of the admission limiter

\* the workers that will call cond.Signal, or test the counter, without
\* waiting for anybody
WillSignal == {v \in 1..Len(wpc) : wpc[v] \in {"woken", "grep", "read", "release"}}

\* the positions a worker can occupy: the root and MaxEntries entries
WorkerIds == 1..(MaxEntries + 1)

\* worker w is blocked in cond.Wait
Waiting(w) == w <= Len(wpc) /\ wpc[w] = "wait"

\* C35: in a tree without failing entries, under fair scheduling every
\* worker that waits for a slot eventually holds one; meanwhile the wait
\* set is exactly the workers blocked in cond.Wait, and as long as it is
\* not empty some worker is still to signal, or to test the counter and
\* signal later
C35_NoLostWakeup ==
    /\ [](/\ waiters = {v \in 1..Len(wpc) : wpc[v] = "wait"}
          /\ waiters # {} => WillSignal # {})
    /\ \A w \in WorkerIds : Waiting(w) ~> (w \in holding)

\* a worker woken by a release finds the freed slot taken by a worker that
\* arrived in between: it will have to wait again
C35_Witness ==
    /\ \E v \in 1..Len(wpc) : wpc[v] = "woken"
    /\ openFileLimit = 0
    /\ holding # {}
    /\ NoFileErrors


\* ---------------------------------------------------------------------
\* Open files and slots

\* one step seen from the files: a file is opened only by a worker that
\* holds a slot and is in getReader, and closed only by the worker's Grep
\* returning, after which it is not opened again
OpenCloseStep ==
    \A w \in 1..Len(wpc) :
        /\ (w \in openFiles' /\ w \notin openFiles) =>
              (wpc[w] = "grep" /\ wpc'[w] = "read" /\ w \in holding)
        /\ (w \in openFiles /\ w \notin openFiles') =>
              (wpc[w] = "read" /\ wpc'[w] \in {"release", "send"} /\ w \in holding)
        /\ (wpc[w] \in {"release", "send", "done"}) => wpc'[w] \notin {"grep", "read"}

\* C36: a worker's file is open exactly while the worker is between the
\* open in getReader and the return of Grep, which closes it whether the
\* read succeeded or failed; all that time the worker holds its slot, so
\* the open files are never more than the slots held; and a file is
\* opened once and closed once
C36_ClosedBeforeRelease ==
    /\ [](/\ openFiles = {w \in 1..Len(wpc) : wpc[w] = "read"}
          /\ openFiles \subseteq holding
          /\ Cardinality(openFiles) <= Cardinality(holding))
    /\ [][OpenCloseStep]_vars

\* a file whose read failed has been closed, and the file of another
\* worker has been closed and its slot released
C36_Witness ==
    /\ \E w \in FileWorkers : /\ w <= Len(wpc)
                                /\ wpc[w] = "send"
                                /\ wresult[w].Error.kind = "ReadFailure"
                                /\ w \notin openFiles
    /\ \E w \in FileWorkers : /\ w <= Len(wpc)
                                /\ wpc[w] \in {"send", "done"}
                                /\ wresult[w].Error = NoError
                                /\ w \notin holding


\* ---------------------------------------------------------------------
\* After-context at the end of the input and after a lone match

\* the last line of the input that contains the keyword
LastMatch == CHOOSE m \in MatchedLinesOf(reader.lines) :
                 \A k \in MatchedLinesOf(reader.lines) : k <= m

\* the last n elements of a sequence
Suffix(s, n) == SubSeq(s, Len(s) - n + 1, Len(s))

\* C37: with after = a > 0 and before = 0, every line of the output is a
\* line of the input; when fewer than a lines follow the last match the
\* output ends with that match and the lines after it, as they are; and
\* when the input has exactly one match the output is that match followed
\* by the a lines after it, or by all of them when they are fewer
C37_AfterContextAtEnd ==
    (/\ LineSearchDone
     /\ option.LinesBeforeMatch = 0
     /\ option.LinesAfterMatch > 0
     /\ MatchedLinesOf(reader.lines) # {}) =>
        LET lines == reader.lines
            n == Len(lines)
            a == option.LinesAfterMatch
            m == LastMatch
        IN  /\ \A j \in 1..Len(out.MatchedLines) :
                  \E k \in 1..n : out.MatchedLines[j] = lines[k]
            /\ n - m < a =>
                  /\ Len(out.MatchedLines) >= n - m + 1
                  /\ Suffix(out.MatchedLines, n - m + 1) = SubSeq(lines, m, n)
            /\ Cardinality(MatchedLinesOf(lines)) = 1 =>
                  out.MatchedLines = SubSeq(lines, m, Min(m + a, n))

\* a lone match with more than a = 2 lines after it: two of them are in
\* the output and the rest are not
C37_Witness ==
    /\ LineSearchDone
    /\ option.LinesBeforeMatch = 0
    /\ option.LinesAfterMatch = 2
    /\ Cardinality(MatchedLinesOf(reader.lines)) = 1
    /\ Len(reader.lines) - LastMatch > 2
    /\ Len(out.MatchedLines) = 3


\* ---------------------------------------------------------------------
\* The path named by the errors of a single target

\* run was given one file to search, not a directory and not the stream
SingleTarget == input.path # <<>> /\ ~input.searchDir

\* C38: when run ends with the error of a directly named target that does
\* not exist or is a directory, the error names the path as the user gave
\* it, which is not the path from the root of the filesystem that was
\* looked up
C38_ErrorNamesOrigPath ==
    (/\ rpc = "done"
     /\ SingleTarget
     /\ ret.kind = "error"
     /\ ret.error.kind \in {"NotExist", "IsDirectory"}) =>
        /\ ret.error.path = input.path
        /\ option.OrigPath = input.path
        /\ option.Path = input.cwd \o <<"/">> \o input.path
        /\ ret.error.path # option.Path
        /\ ret.error.kind = (IF target.exists THEN "IsDirectory" ELSE "NotExist")

\* run ended with the error of a target that is a directory
C38_Witness ==
    /\ rpc = "done"
    /\ SingleTarget
    /\ target.exists /\ target.isDir
    /\ ret = [kind |-> "error", list |-> <<>>,
              error |-> Errorf(<<"f">>, "IsDirectory")]
    /\ option.Path = <<"w", "/", "f">>

====
